---- MODULE Spec2Model ----
(***************************************************************************)
(* chromo_map: WCAG contrast engine, HSV/HSL adjustment primitives and the *)
(* four contrast searches (accessibility/contrast.py, core/color.py).      *)
(*                                                                         *)
(* Numbers.  The code works on Python floats.  Here a channel is an        *)
(* integer number of 1/S (S = 255, the 8-bit grid of the hex inputs), a    *)
(* luminance an integer number of 1/P, a contrast ratio an integer number  *)
(* of 1/RS and an adjustment factor an integer number of 1/FS.  Hue and    *)
(* saturation are kept as exact fractions <<num, den>>, so that an HSV or  *)
(* HSL round trip loses nothing but the final rounding of each channel to  *)
(* the grid, as it loses nothing but the last bit in the code.             *)
(***************************************************************************)
EXTENDS Integers, Sequences, FiniteSets, TLC

\* resolutions: channel, luminance, contrast ratio, adjustment factor
S == (2 ^ 8) - 1
P == 10 ^ 4
RS == 10 ^ 4
FS == 10 ^ 6

----------------------------------------------------------------------------
(* Arithmetic helpers *)

Abs(x) == IF x < 0 THEN 0 - x ELSE x

Min(x, y) == IF x < y THEN x ELSE y

Max(x, y) == IF x > y THEN x ELSE y

Max3(x, y, z) == Max(x, Max(y, z))

Min3(x, y, z) == Min(x, Min(y, z))

\* n / d rounded to the nearest integer (n >= 0, d > 0)
RoundDiv(n, d) == (n + (d \div 2)) \div d

RECURSIVE GCD(_, _)
GCD(x, y) == IF y = 0 THEN x ELSE GCD(y, x % y)

\* the fraction n/d in lowest terms (n >= 0, d > 0)
Frac(n, d) == LET g == GCD(n, d) IN <<n \div g, d \div g>>

\* u * v / FS for two factor-scaled numbers, without leaving 32 bits
MulF(u, v) ==
    LET uh == u \div 1000
        ul == u % 1000
        vh == v \div 1000
        vl == v % 1000
    IN  uh * vh + (((uh * vl + ul * vh) + ((ul * vl) \div 1000)) \div 1000)

\* variant: the upper bound of the clamp is 2.0
ScaleClamp_wide(x, factor, cap) ==
    IF x = 0 \/ factor <= 0 THEN 0
    ELSE IF factor >= ((2 * cap * FS) \div x) + 1 THEN 2 * cap
    ELSE Min(2 * cap, RoundDiv(x * factor, FS))

\* min(1.0, max(0.0, x * factor)) for x in units of 1/cap
ScaleClamp(x, factor, cap) ==
    IF x = 0 \/ factor <= 0 THEN 0
    ELSE IF factor >= ((cap * FS) \div x) + 1 THEN cap
    ELSE Min(cap, RoundDiv(x * factor, FS))

----------------------------------------------------------------------------
(* Color: four channels in [0, 1]  (core/color.py, class Color) *)

Channel == 0..S

ColorType == [r : Channel, g : Channel, b : Channel, a : Channel]

NoColor == [r |-> 0 - 1, g |-> 0 - 1, b |-> 0 - 1, a |-> 0 - 1]

\* Color((r, g, b, a)): the range check of the constructor
ColorOk(cr, cg, cb, ca) == \A x \in {cr, cg, cb, ca} : 0 <= x /\ x <= S

MkColor(cr, cg, cb, ca) ==
    IF ColorOk(cr, cg, cb, ca) THEN [r |-> cr, g |-> cg, b |-> cb, a |-> ca]
    ELSE NoColor

\* Color((r, g, b, self.a)) for the triple a colorsys conversion returns
MkColor3(rgb, ca) == MkColor(rgb[1], rgb[2], rgb[3], ca)

\* colorsys.rgb_to_hsv: h a fraction of a turn, s a fraction, v a channel
rgb_to_hsv(c) ==
    LET maxc == Max3(c.r, c.g, c.b)
        minc == Min3(c.r, c.g, c.b)
        rangec == maxc - minc
        rc == maxc - c.r
        gc == maxc - c.g
        bc == maxc - c.b
        h == IF c.r = maxc THEN bc - gc
             ELSE IF c.g = maxc THEN 2 * rangec + rc - bc
             ELSE 4 * rangec + gc - rc
    IN  IF minc = maxc THEN [h |-> <<0, 1>>, s |-> <<0, 1>>, v |-> maxc]
        ELSE [h |-> Frac(h % (6 * rangec), 6 * rangec),
              s |-> Frac(rangec, maxc),
              v |-> maxc]

\* colorsys.hsv_to_rgb, from h6 = h * 6.0: i = int(h6), f = h6 - i
hsv_sector(h6, s, v) ==
    LET i == h6[1] \div h6[2]
        fn == h6[1] % h6[2]
        fd == h6[2]
        sn == s[1]
        sd == s[2]
        p == RoundDiv(v * (sd - sn), sd)
        q == RoundDiv(v * (sd * fd - sn * fn), sd * fd)
        t == RoundDiv(v * (sd * fd - sn * (fd - fn)), sd * fd)
        k == i % 6
    IN  IF sn = 0 THEN <<v, v, v>>
        ELSE IF k = 0 THEN <<v, t, p>>
        ELSE IF k = 1 THEN <<q, v, p>>
        ELSE IF k = 2 THEN <<p, v, t>>
        ELSE IF k = 3 THEN <<p, q, v>>
        ELSE IF k = 4 THEN <<t, p, v>>
        ELSE <<v, p, q>>

\* colorsys.hsv_to_rgb
hsv_to_rgb(h, s, v) == hsv_sector(Frac(6 * h[1], h[2]), s, v)

\* colorsys.rgb_to_hls: l in units of 1/(2S), i.e. l2 = maxc + minc
rgb_to_hls(c) ==
    LET maxc == Max3(c.r, c.g, c.b)
        minc == Min3(c.r, c.g, c.b)
        sumc == maxc + minc
        rangec == maxc - minc
        rc == maxc - c.r
        gc == maxc - c.g
        bc == maxc - c.b
        h == IF c.r = maxc THEN bc - gc
             ELSE IF c.g = maxc THEN 2 * rangec + rc - bc
             ELSE 4 * rangec + gc - rc
    IN  IF minc = maxc THEN [h |-> <<0, 1>>, l |-> sumc, s |-> <<0, 1>>]
        ELSE [h |-> Frac(h % (6 * rangec), 6 * rangec),
              l |-> sumc,
              s |-> IF sumc <= S THEN Frac(rangec, sumc)
                    ELSE Frac(rangec, 2 * S - sumc)]

\* colorsys._v: one channel from m1 = m1n/md, m2 = m2n/md and a hue
hls_v(m1n, m2n, md, hue) ==
    LET hn == hue[1] % hue[2]
        hd == hue[2]
        up == Frac(6 * hn, hd)
        dn == Frac(4 * hd - 6 * hn, hd)
    IN  IF 6 * hn < hd
        THEN RoundDiv(m1n * up[2] + (m2n - m1n) * up[1], md * up[2])
        ELSE IF 2 * hn < hd THEN RoundDiv(m2n, md)
        ELSE IF 3 * hn < 2 * hd
        THEN RoundDiv(m1n * dn[2] + (m2n - m1n) * dn[1], md * dn[2])
        ELSE RoundDiv(m1n, md)

\* colorsys.hls_to_rgb
hls_to_rgb(h, l, s) ==
    LET sn == s[1]
        sd == s[2]
        md == 2 * sd
        m2n == IF l <= S THEN l * (sd + sn)
               ELSE l * sd + sn * (2 * S - l)
        m1n == 2 * sd * l - m2n
        hp == Frac(3 * h[1] + h[2], 3 * h[2])
        hm == Frac(3 * h[1] + 2 * h[2], 3 * h[2])
    IN  IF sn = 0 THEN <<RoundDiv(l, 2), RoundDiv(l, 2), RoundDiv(l, 2)>>
        ELSE <<hls_v(m1n, m2n, md, hp), hls_v(m1n, m2n, md, h),
               hls_v(m1n, m2n, md, hm)>>

\* h * 360 for a hue in turns
Degrees(h) == Frac(360 * h[1], h[2])

\* (h * 360, s, v) of what colorsys.rgb_to_hsv returned
hsv_degrees(x) == [h |-> Degrees(x.h), s |-> x.s, v |-> x.v]

\* Color.hsv
hsv(c) == hsv_degrees(rgb_to_hsv(c))

\* (h * 360, s, l) of what colorsys.rgb_to_hls returned
hsl_degrees(x) == [h |-> Degrees(x.h), s |-> x.s, l |-> x.l]

\* Color.hsl
hsl(c) == hsl_degrees(rgb_to_hls(c))

\* h / 360 for a hue in degrees
Turn(h) == Frac(h[1], 360 * h[2])

\* the body of Color.adjust_brightness after h, s, v = self.hsv
scale_v(x, factor, ca) ==
    MkColor3(hsv_to_rgb(Turn(x.h), x.s, ScaleClamp(x.v, factor, S)), ca)

\* Color.adjust_brightness
adjust_brightness(c, factor) == scale_v(hsv(c), factor, c.a)

\* the body of Color.adjust_lightness after h, s, l = self.hsl
scale_l(x, factor, ca) ==
    MkColor3(hls_to_rgb(Turn(x.h), ScaleClamp(x.l, factor, 2 * S), x.s), ca)

\* Color.adjust_lightness
adjust_lightness(c, factor) == scale_l(hsl(c), factor, c.a)

\* min(1.0, max(0.0, s * factor)) for a fraction s
ScaleClampFrac(x, factor) ==
    IF x[1] = 0 \/ factor <= 0 THEN <<0, 1>>
    ELSE IF factor >= ((x[2] * FS) \div x[1]) + 1 THEN <<1, 1>>
    ELSE IF x[1] * factor >= x[2] * FS THEN <<1, 1>>
    ELSE Frac(x[1] * factor, x[2] * FS)

\* the body of Color.adjust_saturation after h, s, v = self.hsv
scale_s(x, factor, ca) ==
    MkColor3(hsv_to_rgb(Turn(x.h), ScaleClampFrac(x.s, factor), x.v), ca)

\* Color.adjust_saturation
adjust_saturation(c, factor) == scale_s(hsv(c), factor, c.a)

\* (h + degrees) % 360 for a hue in degrees
new_h(h, deg) == Frac((h[1] + deg * h[2]) % (360 * h[2]), h[2])

\* the body of Color.adjust_hue after h, s, v = self.hsv
rotate_h(x, deg, ca) ==
    MkColor3(hsv_to_rgb(Turn(new_h(x.h, deg)), x.s, x.v), ca)

\* Color.adjust_hue
adjust_hue(c, deg) == rotate_h(hsv(c), deg, c.a)

----------------------------------------------------------------------------
(* Luminance / contrast engine  (core/color.py, Color.luminance,           *)
(* Color.contrast_ratio, Color.is_accessible)                              *)

\* r * r * r * r * r for r in units of 1/P
Pow5(r) ==
    LET r2 == (r * r) \div P
        r3 == (r2 * r) \div P
        r4 == (r3 * r) \div P
    IN  (r4 * r) \div P

RECURSIVE Root5Search(_, _, _)
Root5Search(x, lo, hi) ==
    IF lo >= hi THEN lo
    ELSE LET mid == (lo + hi + 1) \div 2
         IN  IF Pow5(mid) <= x THEN Root5Search(x, mid, hi)
             ELSE Root5Search(x, lo, mid - 1)

\* x ** 0.2 for x in units of 1/P
Root5(x) == Root5Search(x, 0, P)

\* y ** 2.4 = y^2 * (y^2) ** 0.2 for y in units of 1/P
Pow24(y) == LET y2 == (y * y) \div P IN (y2 * Root5(y2)) \div P

\* Color.luminance._linearize: a channel to linear light, in units of 1/P
linearize(c) ==
    IF 100000 * c <= 3928 * S THEN (c * P * 100) \div (S * 1292)
    ELSE Pow24((((c * P) \div S) * 1000 + 55 * P) \div 1055)

\* variant: the luminance is weighted by alpha
luminance_premultiplied(c) ==
    (((2126 * linearize(c.r) + 7152 * linearize(c.g) + 722 * linearize(c.b))
        \div 10000) * c.a) \div S

\* Color.luminance
luminance(c) ==
    (2126 * linearize(c.r) + 7152 * linearize(c.g) + 722 * linearize(c.b))
        \div 10000

\* variant: the luminances are not swapped, the first is the numerator
ratio_of_unordered(la, lb) ==
    ((la + (5 * P) \div 100) * RS) \div (lb + (5 * P) \div 100)

\* (l1 + 0.05) / (l2 + 0.05) with the lighter of the two as l1, in units of
\* 1/RS
ratio_of(la, lb) ==
    IF la < lb THEN ((lb + (5 * P) \div 100) * RS) \div (la + (5 * P) \div 100)
    ELSE ((la + (5 * P) \div 100) * RS) \div (lb + (5 * P) \div 100)

\* Color.contrast_ratio
contrast_ratio(c1, c2) == ratio_of(luminance(c1), luminance(c2))

\* variant: the two levels exchanged
RequiredRatio_swapped(level) ==
    IF level = "AAA" THEN (45 * RS) \div 10 ELSE 7 * RS

\* variant: every level asks for 7.0
RequiredRatio_strict(level) == 7 * RS

\* required_ratio = 7.0 if level == "AAA" else 4.5
RequiredRatio(level) == IF level = "AAA" THEN 7 * RS ELSE (45 * RS) \div 10

\* variant: the test is for "AA", every other level asks for 7.0
is_accessible_aa_only(c1, c2, level) ==
    IF level = "AA" THEN contrast_ratio(c1, c2) >= (45 * RS) \div 10
    ELSE contrast_ratio(c1, c2) >= 7 * RS

\* Color.is_accessible
is_accessible(c1, c2, level) ==
    IF level = "AAA" THEN contrast_ratio(c1, c2) >= 7 * RS
    ELSE contrast_ratio(c1, c2) >= (45 * RS) \div 10

----------------------------------------------------------------------------
(* Inputs of a call *)

\* #rrggbb with alpha 1
Hex(cr, cg, cb) == [r |-> cr, g |-> cg, b |-> cb, a |-> S]

White == Hex(S, S, S)

Black == Hex(0, 0, 0)

\* base colors: the colors of the docstrings and tests, and their neighbours
BasePalette ==
    << Hex(136, 136, 136), Hex(230, 230, 230), White, Hex(255, 204, 204),
       Black, Hex(51, 0, 0), Hex(66, 69, 218), Hex(102, 255, 102),
       Hex(255, 102, 102), Hex(20, 20, 20) >>

TargetPalette ==
    << White, Black, Hex(136, 136, 136), Hex(230, 230, 230), Hex(51, 0, 0) >>

NBase == 7
NTarget == 3

BaseColors == {BasePalette[i] : i \in 1..NBase}

TargetColors == {TargetPalette[i] : i \in 1..NTarget}

Levels == {"AA", "AAA", "other"}

VARIABLES
    fn,             \* the function called
    via,            \* "function", or "method" for the call through Color
    base,           \* base_color
    target,         \* target_color
    level,
    by_lightness,   \* the parameter adjust_lightness
    method,
    step_size,
    max_attempts,
    precision,
    clr,            \* the first argument of Color(...)
    alpha,          \* the alpha argument of Color(...), an optional float
    degrees,        \* the argument of adjust_hue
    grad,           \* the colors of the Gradient make_accessible is called on
    swatch,         \* the Swatch make_accessible is called on
    degenerate,     \* the whites of this run make colorsys.rgb_to_hls divide by zero
    pc,
    outcome,        \* "running", "returned" or "raised"
    result,         \* the returned Color
    error,          \* the exception that reached the caller
    required_ratio,
    current_color,
    attempts,
    factor,
    max_factor,
    trail,          \* history: the colors find_accessible_color went through
    direction,
    temp_color,
    best_color,
    best_contrast,
    search_direction,
    low,
    high,
    dirs_entered,   \* history: directions whose loop was entered
    dirs_failed,    \* history: directions ended by a caught exception
    midpoints,      \* history: the midpoints the binary search evaluated in
                    \* the current direction
    a,
    b,
    x1,
    x2,
    f1,
    f2,
    best_factor,
    learning_rate,
    iteration,      \* the index of the for loop of gradient_descent
    probes,         \* history: the factors objective_function was called
                    \* with; the candidate colors of the iterative and of
                    \* the binary search
    value           \* what a call returned that is not a single Color

inputs == <<fn, via, base, target, level, by_lightness, method, step_size,
            max_attempts, precision, clr, alpha, degrees, grad, swatch,
            degenerate>>

ctl == <<pc, outcome, result, error>>

facVars == <<required_ratio, current_color, attempts, factor, max_factor, trail>>

maxVars == <<direction, temp_color, best_color, best_contrast,
             search_direction, low, high, dirs_entered, dirs_failed,
             midpoints>>

optVars == <<a, b, x1, x2, f1, f2, best_factor, learning_rate, iteration,
             probes>>

\* optVars without the history
optState == <<a, b, x1, x2, f1, f2, best_factor, learning_rate, iteration>>

vars == <<inputs, ctl, facVars, maxVars, optVars, value>>

----------------------------------------------------------------------------
(* Numeric failure of a primitive *)

IsWhite(c) == c.r = S /\ c.g = S /\ c.b = S

IsGray(c) == c.r = c.g /\ c.g = c.b

\* colorsys.rgb_to_hls divides by 2.0 - sumc (CPython before gh-106498),
\* which is 0.0 for a color that is not gray but whose channel sum rounds to
\* 2.0, such as (1.0, 1.0, 0.9999999999999999).  On the grid such a color is
\* white.  A gray stays exactly gray through every adjustment, so the whites
\* of a run are of that kind only if they descend from a base that is not
\* gray, or if the base itself is one of them.
HlsRaises(c) == degenerate /\ IsWhite(c) /\ (IsWhite(base) \/ ~IsGray(base))

NoError == "none"

\* Python's None
None == "None"

\* an optional float: <<>> is None, <<x>> is the float x
NoFloat == <<>>

\* what the constructor made of the adjusted channels: a Color, or the
\* ValueError of its range check
Constructed(n) ==
    [exc |-> IF n = NoColor THEN "ValueError" ELSE NoError, color |-> n]

\* the outcome of color.adjust_lightness(f) or color.adjust_brightness(f)
Adjust(c, f, lightness) ==
    IF lightness
    THEN IF HlsRaises(c) THEN [exc |-> "ZeroDivisionError", color |-> NoColor]
         ELSE Constructed(adjust_lightness(c, f))
    ELSE Constructed(adjust_brightness(c, f))

Raised(x) == x.exc # NoError

Return(c) ==
    /\ pc' = "done"
    /\ outcome' = "returned"
    /\ result' = c
    /\ error' = NoError

Raise(e) ==
    /\ pc' = "done"
    /\ outcome' = "raised"
    /\ result' = NoColor
    /\ error' = e

----------------------------------------------------------------------------
(* find_accessible_color  (accessibility/contrast.py 86-171) *)

\* variant: the comparison of the luminances is reversed
fac_factor_reversed(bc, tc) ==
    IF luminance(bc) < luminance(tc) THEN (11 * FS) \div 10 ELSE (9 * FS) \div 10

\* the fixed factor and its cap or floor (lines 141-148)
fac_factor(bc, tc) ==
    IF luminance(bc) > luminance(tc) THEN (11 * FS) \div 10 ELSE (9 * FS) \div 10

\* variant: the cap and the floor are the factor itself
fac_max_factor_reached(bc, tc) ==
    IF luminance(bc) > luminance(tc) THEN (11 * FS) \div 10 ELSE (9 * FS) \div 10

fac_max_factor(bc, tc) ==
    IF luminance(bc) > luminance(tc) THEN 2 * FS ELSE FS \div 10

fac_max_attempts == 50

\* the test of the while loop (lines 154-157)
fac_continue(c, t, required, n) ==
    contrast_ratio(c, t) < required /\ n < fac_max_attempts

\* variant: the bound is not compared, any factor other than 1 breaks
fac_break_unbounded(f, mf) == (f > FS) \/ (f < FS)

\* the "prevent infinite loops" test (lines 166-169)
fac_break(f, mf) == (f > FS /\ f >= mf) \/ (f < FS /\ f <= mf)

\* lines 131-152
fac_Start ==
    /\ pc = "start"
    /\ fn = "find_accessible_color"
    /\ required_ratio' = RequiredRatio(level)
    /\ IF contrast_ratio(base, target) >= RequiredRatio(level)
       THEN /\ Return(base)
            /\ UNCHANGED <<current_color, attempts, factor, max_factor, trail>>
       ELSE /\ factor' = fac_factor(base, target)
            /\ max_factor' = fac_max_factor(base, target)
            /\ current_color' = base
            /\ attempts' = 0
            /\ trail' = <<base>>
            /\ pc' = "fac_loop"
            /\ UNCHANGED <<outcome, result, error>>
    /\ UNCHANGED <<inputs, value, maxVars, optVars>>

\* one iteration of the while loop (lines 154-169); no handler surrounds it
fac_Step ==
    /\ pc = "fac_loop"
    /\ fac_continue(current_color, target, required_ratio, attempts)
    /\ \E x \in {Adjust(current_color, factor, by_lightness)} :
           IF Raised(x)
           THEN /\ Raise(x.exc)
                /\ UNCHANGED <<current_color, attempts, trail>>
           ELSE /\ current_color' = x.color
                /\ attempts' = attempts + 1
                /\ trail' = Append(trail, x.color)
                /\ IF fac_break(factor, max_factor)
                   THEN Return(x.color)
                   ELSE UNCHANGED ctl
    /\ UNCHANGED <<inputs, value, required_ratio, factor, max_factor, maxVars, optVars>>

\* the loop test fails: return current_color (line 171)
fac_Return ==
    /\ pc = "fac_loop"
    /\ ~fac_continue(current_color, target, required_ratio, attempts)
    /\ Return(current_color)
    /\ UNCHANGED <<inputs, value, facVars, maxVars, optVars>>

----------------------------------------------------------------------------
(* find_maximal_contrast_iterative  (accessibility/contrast.py 174-269) *)

\* variant: a step is accepted whenever it changes the contrast
it_improves_any(next_contrast, best) == next_contrast # best

\* variant: a best color that meets the required ratio is not improved on
it_improves_until_required(next_contrast, best) ==
    next_contrast > best /\ best < required_ratio

\* the acceptance test of a step (line 258)
it_improves(next_contrast, best) == next_contrast > best

\* the factor of a step in a direction (lines 246-254)
it_factor(dir, step) == IF dir = 1 THEN FS + step ELSE FS - step

\* variant: the second direction goes on from where the first one ended
it_EndDirection_continue ==
    IF direction = 1
    THEN /\ direction' = 0 - 1
         /\ attempts' = 0
         /\ dirs_entered' = dirs_entered + 1
         /\ UNCHANGED <<ctl, temp_color>>
    ELSE /\ Return(best_color)
         /\ UNCHANGED <<direction, temp_color, attempts, dirs_entered>>

\* the for loop moves on: the next direction starts again from base
\* (lines 239-241), after the last one best_color is returned (line 269)
it_EndDirection ==
    IF direction = 1
    THEN /\ direction' = 0 - 1
         /\ temp_color' = base
         /\ attempts' = 0
         /\ dirs_entered' = dirs_entered + 1
         /\ UNCHANGED ctl
    ELSE /\ Return(best_color)
         /\ UNCHANGED <<direction, temp_color, attempts, dirs_entered>>

\* variant: no handler, the exception leaves the function
it_OnError_propagate ==
    /\ Raise("ZeroDivisionError")
    /\ dirs_failed' = dirs_failed + 1
    /\ UNCHANGED <<direction, temp_color, attempts, dirs_entered, best_color,
                   best_contrast>>

\* what the handler of line 266 does with a caught exception: break
it_OnError ==
    /\ dirs_failed' = dirs_failed + 1
    /\ it_EndDirection
    /\ UNCHANGED <<best_color, best_contrast>>

\* lines 228-241
it_Start ==
    /\ pc = "start"
    /\ fn = "find_maximal_contrast_iterative"
    /\ required_ratio' = RequiredRatio(level)
    /\ current_color' = base
    /\ best_color' = base
    /\ best_contrast' = contrast_ratio(base, target)
    /\ direction' = 1
    /\ temp_color' = base
    /\ attempts' = 0
    /\ dirs_entered' = 1
    /\ pc' = "it_loop"
    /\ UNCHANGED <<inputs, value, outcome, result, error, factor, max_factor, trail,
                   search_direction, low, midpoints, high, dirs_failed,
                   optVars>>

\* one iteration of the while loop (lines 243-267)
it_Step ==
    /\ pc = "it_loop"
    /\ attempts < max_attempts
    /\ \E x \in {Adjust(temp_color, it_factor(direction, step_size),
                        by_lightness)} :
           IF Raised(x)
           THEN it_OnError /\ UNCHANGED probes
           ELSE \E next_contrast \in {contrast_ratio(x.color, target)} :
                 /\ probes' = probes \cup {x.color}
                 /\ IF it_improves(next_contrast, best_contrast)
                    THEN /\ best_contrast' = next_contrast
                         /\ best_color' = x.color
                         /\ temp_color' = x.color
                         /\ attempts' = attempts + 1
                         /\ UNCHANGED <<ctl, direction, dirs_entered,
                                        dirs_failed>>
                    ELSE /\ it_EndDirection
                         /\ UNCHANGED <<best_color, best_contrast,
                                        dirs_failed>>
    /\ UNCHANGED <<inputs, value, required_ratio, current_color, factor, max_factor,
                   trail, search_direction, low, midpoints, high,
                   optState>>

\* the while test fails: attempts has reached max_attempts (line 243)
it_Exhausted ==
    /\ pc = "it_loop"
    /\ ~(attempts < max_attempts)
    /\ it_EndDirection
    /\ UNCHANGED <<inputs, value, required_ratio, current_color, factor, max_factor,
                   trail, best_color, best_contrast, search_direction, low, midpoints,
                   high, dirs_failed,
                   optVars>>

----------------------------------------------------------------------------
(* find_maximal_contrast_binary_search  (accessibility/contrast.py 272-370) *)

\* the factor range of a direction (lines 334-337)
bs_low(dir) == IF dir = "lighter" THEN FS ELSE FS \div 10

bs_high(dir) == IF dir = "lighter" THEN 3 * FS ELSE FS

\* variant: only a midpoint that meets the required ratio can become the best
bs_improves_meeting(test_contrast, best) ==
    test_contrast > best /\ test_contrast >= required_ratio

\* the update of the running best (line 350)
bs_improves(test_contrast, best) == test_contrast > best

\* variant: the lower bound moves when the midpoint misses the ratio, in
\* both directions
bs_new_low_misses(dir, lo, mid, test_contrast, required) ==
    IF test_contrast >= required THEN lo ELSE mid

\* the bounds after a midpoint (lines 355-366)
bs_new_low(dir, lo, mid, test_contrast, required) ==
    IF dir = "lighter"
    THEN IF test_contrast >= required THEN mid ELSE lo
    ELSE IF test_contrast >= required THEN lo ELSE mid

bs_new_high(dir, hi, mid, test_contrast, required) ==
    IF dir = "lighter"
    THEN IF test_contrast >= required THEN hi ELSE mid
    ELSE IF test_contrast >= required THEN mid ELSE hi

\* the while test (line 339): (high - low) > precision, the precision being
\* in units of 1/(10 * FS)
bs_wider(lo, hi, prec) == 10 * (hi - lo) > prec

\* the number of midpoints of one direction the model follows
MaxMidpoints == 32

\* the for loop moves on (lines 333-337), after "darker" best_color is
\* returned (line 370)
bs_EndDirection ==
    IF search_direction = "lighter"
    THEN /\ search_direction' = "darker"
         /\ low' = bs_low("darker")
         /\ high' = bs_high("darker")
         /\ midpoints' = 0
         /\ dirs_entered' = dirs_entered + 1
         /\ UNCHANGED ctl
    ELSE /\ Return(best_color)
         /\ UNCHANGED <<search_direction, low, midpoints, high, dirs_entered>>

\* what the handler of line 367 does with a caught exception: break
bs_OnError ==
    /\ dirs_failed' = dirs_failed + 1
    /\ bs_EndDirection
    /\ UNCHANGED <<best_color, best_contrast>>

\* lines 323-337
bs_Start ==
    /\ pc = "start"
    /\ fn = "find_maximal_contrast_binary_search"
    /\ required_ratio' = RequiredRatio(level)
    /\ best_color' = base
    /\ best_contrast' = contrast_ratio(base, target)
    /\ search_direction' = "lighter"
    /\ low' = bs_low("lighter")
    /\ high' = bs_high("lighter")
    /\ midpoints' = 0
    /\ dirs_entered' = 1
    /\ pc' = "bs_loop"
    /\ UNCHANGED <<inputs, value, outcome, result, error, current_color, attempts,
                   factor, max_factor, trail, direction, temp_color,
                   dirs_failed,
                   optVars>>

\* one iteration of the while loop (lines 339-368)
bs_Step ==
    /\ pc = "bs_loop"
    /\ bs_wider(low, high, precision)
    /\ midpoints < MaxMidpoints
    /\ \E mid \in {(low + high) \div 2} :
       \E x \in {Adjust(base, mid, by_lightness)} :
           IF Raised(x)
           THEN bs_OnError /\ UNCHANGED probes
           ELSE \E test_contrast \in {contrast_ratio(x.color, target)} :
                /\ probes' = probes \cup {x.color}
                /\ IF bs_improves(test_contrast, best_contrast)
                   THEN /\ best_contrast' = test_contrast
                        /\ best_color' = x.color
                   ELSE UNCHANGED <<best_color, best_contrast>>
                /\ low' = bs_new_low(search_direction, low, mid,
                                     test_contrast, required_ratio)
                /\ high' = bs_new_high(search_direction, high, mid,
                                       test_contrast, required_ratio)
                /\ midpoints' = midpoints + 1
                /\ UNCHANGED <<ctl, search_direction, dirs_entered, dirs_failed>>
    /\ UNCHANGED <<inputs, value, required_ratio, current_color, attempts, factor,
                   max_factor, trail, direction, temp_color,
                   optState>>

\* the while test fails: the interval is no wider than precision (line 339)
bs_Converged ==
    /\ pc = "bs_loop"
    /\ ~bs_wider(low, high, precision)
    /\ bs_EndDirection
    /\ UNCHANGED <<inputs, value, required_ratio, current_color, attempts, factor,
                   max_factor, trail, direction, temp_color, best_color,
                   best_contrast, dirs_failed,
                   optVars>>

----------------------------------------------------------------------------
(* find_maximal_contrast_optimization  (accessibility/contrast.py 373-536) *)

\* max(lightness_contrast, brightness_contrast), or 0.0 from the handler
better_contrast(lightness_color, brightness_color) ==
    IF Raised(lightness_color) \/ Raised(brightness_color) THEN 0
    ELSE Max(contrast_ratio(lightness_color.color, target),
             contrast_ratio(brightness_color.color, target))

\* objective_function (lines 423-436): the better of the two adjustments of
\* base by the factor; an exception of an adjustment gives 0.0
objective_function(f) ==
    better_contrast(Adjust(base, f, TRUE), Adjust(base, f, FALSE))

\* variant: an unrecognized method falls back to the default strategy
opt_branch_fallback(m) ==
    IF m = "gradient_descent" THEN "gradient_descent" ELSE "golden_section"

\* the branch taken for a method (lines 438, 490, 535)
opt_branch(m) ==
    IF m = "golden_section" THEN "golden_section"
    ELSE IF m = "gradient_descent" THEN "gradient_descent"
    ELSE "raise"

\* 5 ** 0.5
Sqrt5 == 2236068

\* phi = (1 + 5 ** 0.5) / 2
phi == (FS + Sqrt5) \div 2

resphi == 2 * FS - phi

\* a, b = 0.1, 3.0 and tol = 1e-5 (lines 444-445)
gs_a == FS \div 10

gs_b == 3 * FS

tol == FS \div (10 ^ 5)

\* the interior points of the bracket (lines 448-449, 461, 467)
gs_x1(lo, hi) == lo + MulF(resphi, hi - lo)

gs_x2(lo, hi) == lo + MulF(FS - resphi, hi - lo)

\* variant: the lightness-adjusted candidate is returned without comparison
opt_Finish_lightness(f) ==
    \E lightness_color \in {Adjust(base, f, TRUE)} :
    \E brightness_color \in {Adjust(base, f, FALSE)} :
        IF Raised(lightness_color) THEN Raise(lightness_color.exc)
        ELSE IF Raised(brightness_color) THEN Raise(brightness_color.exc)
        ELSE Return(lightness_color.color)

\* "determine which adjustment method gives better contrast"
\* (lines 477-488 and 522-533); an exception of an adjustment is not caught
opt_Finish(f) ==
    \E lightness_color \in {Adjust(base, f, TRUE)} :
    \E brightness_color \in {Adjust(base, f, FALSE)} :
        IF Raised(lightness_color) THEN Raise(lightness_color.exc)
        ELSE IF Raised(brightness_color) THEN Raise(brightness_color.exc)
        ELSE IF contrast_ratio(lightness_color.color, target)
                    > contrast_ratio(brightness_color.color, target)
        THEN Return(lightness_color.color)
        ELSE Return(brightness_color.color)

\* variant: the descent starts from the upper end of the factor range
gd_factor_upper == 3 * FS

\* factor = 1.0 (line 492): the descent starts from the unadjusted base
gd_factor == FS

\* learning_rate = 0.1, max_iterations = 100 (lines 493-494)
gd_learning_rate == FS \div 10

max_iterations == 100

\* epsilon (line 501).  The code's 1e-6 is far below what the channel grid
\* resolves; the central difference is taken with the smallest step whose
\* two sides the grid tells apart.
epsilon == FS \div 50

\* d / (2 * epsilon), in units of 1/RS
slope(d) ==
    IF d < 0 THEN 0 - (((0 - d) * (FS \div epsilon)) \div 2)
    ELSE (d * (FS \div epsilon)) \div 2

\* the gradient (lines 502-505)
gradient(f) ==
    slope(objective_function(f + epsilon) - objective_function(f - epsilon))

\* factor + learning_rate * gradient (line 508)
gd_new_factor(f, lr, g) ==
    IF g < 0 THEN f - MulF(lr, (0 - g) * (FS \div RS))
    ELSE f + MulF(lr, g * (FS \div RS))

\* variant: a trial that is no worse than the best is accepted
gd_improves_or_equal(new_contrast, best) == new_contrast >= best

\* the acceptance test of a step (line 511)
gd_improves(new_contrast, best) == new_contrast > best

\* the early stop: abs(new_contrast - best_contrast) < 1e-6 (line 519)
gd_converged(new_contrast, best) ==
    Abs(new_contrast - best) * ((10 ^ 6) \div RS) < 1

\* Color.maximize_contrast_optimization (core/color.py 1228-1263): forwards
\* self, target_color, level and method to the function
maximize_contrast_optimization ==
    /\ pc = "method"
    /\ fn = "find_maximal_contrast_optimization"
    /\ pc' = "start"
    /\ UNCHANGED <<inputs, value, outcome, result, error, facVars, maxVars, optVars>>

\* lines 421, 438-454, 490-497, 535-536
opt_Start ==
    /\ pc = "start"
    /\ fn = "find_maximal_contrast_optimization"
    /\ required_ratio' = RequiredRatio(level)
    /\ IF opt_branch(method) = "golden_section"
       THEN /\ a' = gs_a
            /\ b' = gs_b
            /\ x1' = gs_x1(gs_a, gs_b)
            /\ x2' = gs_x2(gs_a, gs_b)
            /\ f1' = objective_function(x1')
            /\ f2' = objective_function(x2')
            /\ best_factor' = IF f1' > f2' THEN x1' ELSE x2'
            /\ best_contrast' = Max(f1', f2')
            /\ probes' = {x1', x2'}
            /\ pc' = "gs_loop"
            /\ UNCHANGED <<outcome, result, error, factor, learning_rate,
                           iteration>>
       ELSE IF opt_branch(method) = "gradient_descent"
       THEN /\ factor' = gd_factor
            /\ learning_rate' = gd_learning_rate
            /\ iteration' = 0
            /\ best_factor' = gd_factor
            /\ best_contrast' = objective_function(gd_factor)
            /\ probes' = {gd_factor}
            /\ pc' = "gd_loop"
            /\ UNCHANGED <<outcome, result, error, a, b, x1, x2, f1, f2>>
       ELSE /\ Raise("ValueError")
            /\ UNCHANGED <<a, b, x1, x2, f1, f2, best_factor, best_contrast,
                           factor, learning_rate, iteration, probes>>
    /\ UNCHANGED <<inputs, value, current_color, attempts, max_factor, trail,
                   direction, temp_color, best_color, search_direction, low, midpoints,
                   high, dirs_entered, dirs_failed>>

\* one iteration of the golden-section loop (lines 456-475)
gs_Step ==
    /\ pc = "gs_loop"
    /\ Abs(b - a) > tol
    /\ IF f1 > f2
       THEN /\ b' = x2
            /\ x2' = x1
            /\ f2' = f1
            /\ x1' = gs_x1(a, b')
            /\ f1' = objective_function(x1')
            /\ probes' = probes \cup {x1'}
            /\ UNCHANGED a
       ELSE /\ a' = x1
            /\ x1' = x2
            /\ f1' = f2
            /\ x2' = gs_x2(a', b)
            /\ f2' = objective_function(x2')
            /\ probes' = probes \cup {x2'}
            /\ UNCHANGED b
    /\ IF Max(f1', f2') > best_contrast
       THEN /\ best_contrast' = Max(f1', f2')
            /\ best_factor' = IF f1' > f2' THEN x1' ELSE x2'
       ELSE UNCHANGED <<best_contrast, best_factor>>
    /\ UNCHANGED <<inputs, value, ctl, required_ratio, current_color, attempts,
                   factor, max_factor, trail, direction, temp_color,
                   best_color, search_direction, low, midpoints, high, dirs_entered,
                   dirs_failed, learning_rate, iteration>>

\* the bracket is no wider than tol: lines 477-488
gs_Return ==
    /\ pc = "gs_loop"
    /\ ~(Abs(b - a) > tol)
    /\ opt_Finish(best_factor)
    /\ UNCHANGED <<inputs, value, facVars, maxVars, optVars>>

\* one iteration of the gradient loop (lines 499-520)
gd_Step ==
    /\ pc = "gd_loop"
    /\ iteration < max_iterations
    /\ \E new_factor \in {gd_new_factor(factor, learning_rate,
                                         gradient(factor))} :
       \E new_contrast \in {objective_function(new_factor)} :
           /\ IF gd_improves(new_contrast, best_contrast)
              THEN /\ best_contrast' = new_contrast
                   /\ best_factor' = new_factor
                   /\ factor' = new_factor
                   /\ UNCHANGED learning_rate
              ELSE /\ learning_rate' = (learning_rate * 9) \div 10
                   /\ UNCHANGED <<best_contrast, best_factor, factor>>
           /\ pc' = IF gd_converged(new_contrast, best_contrast')
                    THEN "gd_final" ELSE "gd_loop"
           /\ probes' = probes \cup {factor + epsilon, factor - epsilon,
                                     new_factor}
    /\ iteration' = iteration + 1
    /\ UNCHANGED <<inputs, value, outcome, result, error, required_ratio,
                   current_color, attempts, max_factor, trail, direction,
                   temp_color, best_color, search_direction, low, midpoints, high,
                   dirs_entered, dirs_failed, a, b, x1, x2, f1, f2>>

\* after the break or the last iteration: lines 522-533
gd_Return ==
    /\ \/ pc = "gd_final"
       \/ pc = "gd_loop" /\ ~(iteration < max_iterations)
    /\ opt_Finish(best_factor)
    /\ UNCHANGED <<inputs, value, facVars, maxVars, optVars>>

----------------------------------------------------------------------------
(* Color(clr, alpha)  (core/color.py 25-50, 173-227) *)

\* f"{n:02x}": the hexadecimal digits of n, at least two; the sign of a
\* negative number is the character -1
HexDigits(n) ==
    IF n < 0 THEN <<0 - 1, (0 - n) % 16>>
    ELSE IF n < 256 THEN <<n \div 16, n % 16>>
    ELSE <<n \div 256, (n \div 16) % 16, n % 16>>

\* matplotlib's to_rgb of "#" followed by the digits: six digits are
\* rrggbb, eight are rrggbbaa, anything else is a ValueError
to_rgb(digits) ==
    IF Len(digits) \in {6, 8} /\ \A i \in 1..Len(digits) : digits[i] \in 0..15
    THEN [exc |-> NoError,
          tup |-> <<16 * digits[1] + digits[2], 16 * digits[3] + digits[4],
                    16 * digits[5] + digits[6]>>]
    ELSE [exc |-> "ValueError", tup |-> <<>>]

\* the tuple of an rgb()/rgba() string whose alpha is in range
rgb_tuple(rgb, alp) ==
    IF Raised(rgb) THEN rgb
    ELSE [exc |-> NoError, tup |-> Append(rgb.tup, alp)]

\* rgba_to_tup of "rgb(red, grn, blu)" or "rgba(red, grn, blu, alp)"
rgba_to_tup(x) ==
    IF x.alp # NoFloat /\ ~(0 <= x.alp[1] /\ x.alp[1] <= S)
    THEN [exc |-> "ValueError", tup |-> <<>>]
    ELSE rgb_tuple(to_rgb(HexDigits(x.red) \o HexDigits(x.grn)
                            \o HexDigits(x.blu)),
                   IF x.alp = NoFloat THEN S ELSE x.alp[1])

\* the range check of the constructor (lines 221-227) on red, grn, blu, alp
Checked(t, alp) ==
    IF \A x \in {t[1], t[2], t[3], alp} : 0 <= x /\ x <= S
    THEN [exc |-> NoError,
          color |-> [r |-> t[1], g |-> t[2], b |-> t[3], a |-> alp]]
    ELSE [exc |-> "ValueError", color |-> NoColor]

\* the branch of a string (lines 209-214): what clr_to_tup made of it
FromTuple(t, al) ==
    IF Raised(t) THEN [exc |-> t.exc, color |-> NoColor]
    ELSE Checked(t.tup, IF al # NoFloat THEN al[1] ELSE t.tup[4])

\* Color.__init__
ColorInit(x, al) ==
    IF x.form = "Color"
    THEN [exc |-> NoError,
          color |-> IF al # NoFloat THEN [x.color EXCEPT !.a = al[1]]
                    ELSE x.color]
    ELSE IF x.form = "sequence"
    THEN IF Len(x.vals) < 3 THEN [exc |-> "ValueError", color |-> NoColor]
         ELSE Checked(x.vals, IF al # NoFloat THEN al[1]
                              ELSE IF Len(x.vals) > 3 THEN x.vals[4] ELSE S)
    ELSE IF x.form = "hex"
    THEN FromTuple([exc |-> NoError, tup |-> x.vals], al)
    ELSE IF x.form = "rgb"
    THEN FromTuple(rgba_to_tup(x), al)
    ELSE [exc |-> "ValueError", color |-> NoColor]

\* Color(clr, alpha)
Color_init ==
    /\ pc = "start"
    /\ fn = "Color"
    /\ \E x \in {ColorInit(clr, alpha)} :
           IF Raised(x) THEN Raise(x.exc) ELSE Return(x.color)
    /\ UNCHANGED <<inputs, value, facVars, maxVars, optVars>>

----------------------------------------------------------------------------
(* Calls of the Color API  (core/color.py, accessibility/contrast.py 11-83) *)

\* a call that returns a number or a boolean
ReturnValue(x) ==
    /\ pc' = "done"
    /\ outcome' = "returned"
    /\ value' = x
    /\ UNCHANGED <<result, error>>

\* contrast_ratio(color1, color2): c1.contrast_ratio(c2)
call_contrast_ratio ==
    /\ pc = "start"
    /\ fn = "contrast_ratio"
    /\ ReturnValue(contrast_ratio(base, target))
    /\ UNCHANGED <<inputs, facVars, maxVars, optVars>>

\* is_accessible(color1, color2, level): c1.is_accessible(c2, level)
call_is_accessible ==
    /\ pc = "start"
    /\ fn = "is_accessible"
    /\ ReturnValue(is_accessible(base, target, level))
    /\ UNCHANGED <<inputs, facVars, maxVars, optVars>>

\* what a method that ends in "return Color((r, g, b, self.a))" makes of it
ReturnConstructed(x) == IF Raised(x) THEN Raise(x.exc) ELSE Return(x.color)

\* base.adjust_hue(degrees)
call_adjust_hue ==
    /\ pc = "start"
    /\ fn = "adjust_hue"
    /\ ReturnConstructed(Constructed(adjust_hue(base, degrees)))
    /\ UNCHANGED <<inputs, value, facVars, maxVars, optVars>>

\* base.adjust_hue(degrees).adjust_hue(-degrees): the second call, on the
\* color the first one returned
call_adjust_hue_back ==
    /\ pc = "done"
    /\ fn = "adjust_hue"
    /\ outcome = "returned"
    /\ \E x \in {Constructed(adjust_hue(result, 0 - degrees))} :
           /\ ~Raised(x)
           /\ value' = x.color
    /\ pc' = "reversed"
    /\ UNCHANGED <<inputs, outcome, result, error, facVars, maxVars, optVars>>

\* base.adjust_saturation(factor)
call_adjust_saturation ==
    /\ pc = "start"
    /\ fn = "adjust_saturation"
    /\ ReturnConstructed(Constructed(adjust_saturation(base, factor)))
    /\ UNCHANGED <<inputs, value, facVars, maxVars, optVars>>

\* base.adjust_brightness(factor)
call_adjust_brightness ==
    /\ pc = "start"
    /\ fn = "adjust_brightness"
    /\ ReturnConstructed(Adjust(base, factor, FALSE))
    /\ UNCHANGED <<inputs, value, facVars, maxVars, optVars>>

\* base.adjust_lightness(factor)
call_adjust_lightness ==
    /\ pc = "start"
    /\ fn = "adjust_lightness"
    /\ ReturnConstructed(Adjust(base, factor, TRUE))
    /\ UNCHANGED <<inputs, value, facVars, maxVars, optVars>>

----------------------------------------------------------------------------
(* Specifications *)

\* the arguments of the other entry points, when they are not the call
NoOtherInputs ==
    /\ clr = None
    /\ alpha = NoFloat
    /\ degrees = 0
    /\ grad = <<>>
    /\ swatch = None
    /\ value = None

InitInputs(fns) ==
    /\ fn \in fns
    /\ NoOtherInputs
    /\ base \in BaseColors
    /\ target \in TargetColors
    /\ level \in Levels
    /\ by_lightness \in BOOLEAN
    /\ degenerate \in BOOLEAN
    /\ pc = IF via = "method" THEN "method" ELSE "start"
    /\ outcome = "running"
    /\ result = NoColor
    /\ error = NoError

InitFac ==
    /\ required_ratio = 0
    /\ current_color = NoColor
    /\ attempts = 0
    /\ factor = 0
    /\ max_factor = 0
    /\ trail = <<>>

InitMax ==
    /\ direction = 0
    /\ temp_color = NoColor
    /\ best_color = NoColor
    /\ best_contrast = 0
    /\ search_direction = "none"
    /\ low = 0
    /\ high = 0
    /\ dirs_entered = 0
    /\ dirs_failed = 0
    /\ midpoints = 0

\* the defaults of the signatures (lines 179-180, 277)
DefaultStepSize == FS \div 10

DefaultMaxAttempts == 50

\* precision = 0.001, in units of 1/(10 * FS)
DefaultPrecision == (10 * FS) \div 1000

StepSizes == {DefaultStepSize, FS \div 4}

MaxAttempts == {DefaultMaxAttempts, 3}

\* 0.001, 0.05 and 1e-7, a precision finer than the spacing of the factors
Precisions == {DefaultPrecision, (10 * FS) \div 20, 1}

InitOpt ==
    /\ a = 0
    /\ b = 0
    /\ x1 = 0
    /\ x2 = 0
    /\ f1 = 0
    /\ f2 = 0
    /\ best_factor = 0
    /\ learning_rate = 0
    /\ iteration = 0
    /\ probes = {}

Methods == {"golden_section", "gradient_descent", "not_a_method"}

\* the state before a call that is not one of the searches
-----------------------------------------------------------------------------
(* Gradient.make_accessible and Swatch.make_accessible *)

RECURSIVE fac_loop(_, _, _, _, _, _, _)

\* the rest of an iteration of the while loop, x being the adjusted color
fac_next(x, t, required, f, mf, n, lightness) ==
    IF Raised(x) \/ fac_break(f, mf) THEN x
    ELSE fac_loop(x.color, t, required, f, mf, n + 1, lightness)

\* the while loop of find_accessible_color, from its n-th test on
fac_loop(c, t, required, f, mf, n, lightness) ==
    IF fac_continue(c, t, required, n)
    THEN fac_next(Adjust(c, f, lightness), t, required, f, mf, n, lightness)
    ELSE [exc |-> NoError, color |-> c]

\* find_accessible_color(base, target, level, adjust_lightness) as one call
find_accessible_color(bc, tc, lvl, lightness) ==
    IF contrast_ratio(bc, tc) >= RequiredRatio(lvl)
    THEN [exc |-> NoError, color |-> bc]
    ELSE fac_loop(bc, tc, RequiredRatio(lvl), fac_factor(bc, tc),
                  fac_max_factor(bc, tc), 0, lightness)

NoGradient == [colors |-> <<>>, name |-> <<>>]

\* Gradient(colors, name=name) for a list of Color objects
Gradient_init(colors, name) ==
    IF colors = <<>> THEN [exc |-> "ValueError", gradient |-> NoGradient]
    ELSE [exc |-> NoError,
          gradient |->
              [colors |->
                   [i \in 1..Len(colors) |->
                        ColorInit([form |-> "Color", color |-> colors[i]],
                                  NoFloat).color],
               name |-> name]]

RECURSIVE accessible_colors(_, _, _, _)

accessible_colors_next(x, rest, background, lvl, new_colors) ==
    IF Raised(x) THEN [exc |-> x.exc, colors |-> <<>>]
    ELSE accessible_colors(rest, background, lvl, Append(new_colors, x.color))

\* [find_accessible_color(color, background, level) for color in self.colors]
accessible_colors(colors, background, lvl, new_colors) ==
    IF colors = <<>> THEN [exc |-> NoError, colors |-> new_colors]
    ELSE accessible_colors_next(
             find_accessible_color(Head(colors), background, lvl, TRUE),
             Tail(colors), background, lvl, new_colors)

Gradient_accessible(x, name) ==
    IF Raised(x) THEN [exc |-> x.exc, gradient |-> NoGradient]
    ELSE Gradient_init(x.colors, Append(name, "_accessible"))

\* gradient.make_accessible(background_color, level)
Gradient_make_accessible(g, background, lvl) ==
    Gradient_accessible(accessible_colors(g.colors, background, lvl, <<>>),
                        g.name)

DefaultMaxn == 32

\* variant: maxn is left at its default
Swatch_init_default(gradients, maxn) ==
    [gradients |-> gradients, maxn |-> DefaultMaxn]

\* Swatch(gradients, maxn=maxn) for a list of Gradient objects
Swatch_init(gradients, maxn) == [gradients |-> gradients, maxn |-> maxn]

RECURSIVE accessible_gradients(_, _, _, _)

accessible_gradients_next(x, rest, background, lvl, new_gradients) ==
    IF Raised(x) THEN [exc |-> x.exc, gradients |-> <<>>]
    ELSE accessible_gradients(rest, background, lvl,
                              Append(new_gradients, x.gradient))

\* [gradient.make_accessible(background_color, level)
\*  for gradient in self.gradients]
accessible_gradients(gradients, background, lvl, new_gradients) ==
    IF gradients = <<>> THEN [exc |-> NoError, gradients |-> new_gradients]
    ELSE accessible_gradients_next(
             Gradient_make_accessible(Head(gradients), background, lvl),
             Tail(gradients), background, lvl, new_gradients)

Swatch_accessible(x, maxn) ==
    [exc |-> x.exc, swatch |-> Swatch_init(x.gradients, maxn)]

\* swatch.make_accessible(background_color, level)
Swatch_make_accessible(sw, background, lvl) ==
    Swatch_accessible(accessible_gradients(sw.gradients, background, lvl, <<>>),
                      sw.maxn)

call_Gradient_make_accessible ==
    /\ pc = "start"
    /\ fn = "Gradient.make_accessible"
    /\ \E x \in {Gradient_make_accessible(grad, target, level)} :
           IF Raised(x) THEN Raise(x.exc) /\ UNCHANGED value
           ELSE ReturnValue(x.gradient)
    /\ UNCHANGED <<inputs, facVars, maxVars, optVars>>

call_Swatch_make_accessible ==
    /\ pc = "start"
    /\ fn = "Swatch.make_accessible"
    /\ \E x \in {Swatch_make_accessible(swatch, target, level)} :
           IF Raised(x) THEN Raise(x.exc) /\ UNCHANGED value
           ELSE ReturnValue(x.swatch)
    /\ UNCHANGED <<inputs, facVars, maxVars, optVars>>

InitCall ==
    /\ via = "function"
    /\ by_lightness = TRUE
    /\ degenerate = FALSE
    /\ method = "golden_section"
    /\ step_size = DefaultStepSize
    /\ max_attempts = DefaultMaxAttempts
    /\ precision = DefaultPrecision
    /\ pc = "start"
    /\ outcome = "running"
    /\ result = NoColor
    /\ error = NoError
    /\ value = None
    /\ required_ratio = 0
    /\ current_color = NoColor
    /\ attempts = 0
    /\ max_factor = 0
    /\ trail = <<>>
    /\ InitMax
    /\ InitOpt

\* Color.with_alpha (line 551)
with_alpha(c, al) == MkColor(c.r, c.g, c.b, al)

\* the colors the calls are made with: the palettes and two translucent ones
CallColors ==
    BaseColors \cup TargetColors
        \cup {with_alpha(BasePalette[1], S \div 2), with_alpha(White, 0)}

InitIsAccessible ==
    /\ fn = "is_accessible"
    /\ base \in CallColors
    /\ target \in CallColors
    /\ level \in Levels
    /\ factor = 0
    /\ clr = None
    /\ alpha = NoFloat
    /\ degrees = 0
    /\ grad = <<>>
    /\ swatch = None
    /\ InitCall

InitContrastRatio ==
    /\ fn = "contrast_ratio"
    /\ base \in CallColors
    /\ target \in CallColors
    /\ level = "AA"
    /\ factor = 0
    /\ clr = None
    /\ alpha = NoFloat
    /\ degrees = 0
    /\ grad = <<>>
    /\ swatch = None
    /\ InitCall

\* the values a float argument is drawn from, in units of 1/S: in range,
\* at both ends of the range and on both sides outside it
Floats == {0 - 1, 0, S \div 2, S, S + 1}

\* the integers of an rgb() string
Ints == {0 - 1, 0, 16, S, S + 1}

ClrInputs ==
    {[form |-> "Color", color |-> c] : c \in CallColors}
      \cup {[form |-> "hex", vals |-> <<c.r, c.g, c.b, c.a>>] : c \in CallColors}
      \cup {[form |-> "sequence", vals |-> <<x, S, y>>] : x, y \in Floats}
      \cup {[form |-> "sequence", vals |-> <<0, x, S, y>>] : x, y \in Floats}
      \cup {[form |-> "sequence", vals |-> <<0, S>>]}
      \cup {[form |-> "rgb", red |-> x, grn |-> y, blu |-> 0, alp |-> z] :
                x, y \in Ints, z \in {NoFloat, <<S \div 2>>, <<S + 1>>}}
      \cup {[form |-> "other"]}

InitColor ==
    /\ fn = "Color"
    /\ clr \in ClrInputs
    /\ alpha \in {NoFloat} \cup {<<x>> : x \in Floats}
    /\ base = NoColor
    /\ target = NoColor
    /\ level = "AA"
    /\ factor = 0
    /\ degrees = 0
    /\ grad = <<>>
    /\ swatch = None
    /\ InitCall

SpecColor == InitColor /\ [][Color_init]_vars

\* the factors of an adjustment: negative, zero, shrinking, the identity,
\* growing, and far beyond what any channel can take
Factors ==
    {0 - (FS \div 2), 0, FS \div 2, (9 * FS) \div 10, FS, (11 * FS) \div 10,
     2 * FS, 1000 * FS}

\* the rotations of a hue: negative ones, none, below and above a full turn
Rotations == {0 - 420, 0 - 360, 0 - 60, 0, 45, 60, 120, 360, 420, 720}

InitAdjust ==
    /\ fn \in {"adjust_hue", "adjust_saturation", "adjust_brightness",
               "adjust_lightness"}
    /\ base \in CallColors
    /\ target = NoColor
    /\ level = "AA"
    /\ IF fn = "adjust_hue"
       THEN factor = 0 /\ degrees \in Rotations
       ELSE factor \in Factors /\ degrees = 0
    /\ clr = None
    /\ alpha = NoFloat
    /\ grad = <<>>
    /\ swatch = None
    /\ InitCall

InitAccessible ==
    /\ via = "function"
    /\ InitInputs({"find_accessible_color"})
    /\ method = "golden_section"
    /\ step_size = DefaultStepSize
    /\ max_attempts = DefaultMaxAttempts
    /\ precision = DefaultPrecision
    /\ InitFac
    /\ InitMax
    /\ InitOpt

NextAccessible == fac_Start \/ fac_Step \/ fac_Return

SpecAccessible == InitAccessible /\ [][NextAccessible]_vars

\* the same base, target and basis flag at level "AA" and then at "AAA":
\* the first result is kept in value while the second call runs
fac_Again ==
    /\ pc = "done"
    /\ fn = "find_accessible_color"
    /\ level = "AA"
    /\ outcome = "returned"
    /\ value' = result
    /\ level' = "AAA"
    /\ pc' = "start"
    /\ outcome' = "running"
    /\ result' = NoColor
    /\ error' = NoError
    /\ required_ratio' = 0
    /\ current_color' = NoColor
    /\ attempts' = 0
    /\ factor' = 0
    /\ max_factor' = 0
    /\ trail' = <<>>
    /\ UNCHANGED <<fn, via, base, target, by_lightness, method, step_size,
                   max_attempts, precision, clr, alpha, degrees, grad, swatch,
                   degenerate, maxVars, optVars>>

MaxColors == 3

MaxGradients == 2

GradientColors ==
    {Hex(255, 204, 204), Hex(66, 69, 218),
     with_alpha(Hex(102, 255, 102), S \div 2)}

ColorLists == UNION {[1..n -> GradientColors] : n \in 1..MaxColors}

SwatchGradients ==
    {[colors |-> <<Hex(255, 204, 204), Hex(204, 255, 204)>>,
      name |-> <<"Pastels">>],
     [colors |-> <<Hex(66, 69, 218)>>, name |-> <<"Blue">>],
     [colors |-> <<with_alpha(Hex(102, 255, 102), S \div 2),
                   Hex(136, 136, 136), Hex(255, 204, 204)>>,
      name |-> <<"Mixed">>]}

GradientLists == UNION {[1..n -> SwatchGradients] : n \in 0..MaxGradients}

InitCollections ==
    /\ fn \in {"Gradient.make_accessible", "Swatch.make_accessible"}
    /\ base = NoColor
    /\ target \in TargetColors
    /\ level \in {"AA", "AAA"}
    /\ factor = 0
    /\ clr = None
    /\ alpha = NoFloat
    /\ degrees = 0
    /\ IF fn = "Gradient.make_accessible"
       THEN /\ grad \in {[colors |-> cs, name |-> <<"custom">>] :
                              cs \in ColorLists}
            /\ swatch = None
       ELSE /\ grad = <<>>
            /\ swatch \in {[gradients |-> gs, maxn |-> n] :
                                gs \in GradientLists, n \in {DefaultMaxn, 7}}
    /\ InitCall

NextCollections ==
    \/ call_Gradient_make_accessible
    \/ call_Swatch_make_accessible

SpecCollections == InitCollections /\ [][NextCollections]_vars

InitTwoLevels == InitAccessible /\ level = "AA"

NextTwoLevels == NextAccessible \/ fac_Again

SpecTwoLevels == InitTwoLevels /\ [][NextTwoLevels]_vars

InitMaximal ==
    /\ via = "function"
    /\ InitInputs({"find_maximal_contrast_iterative",
                   "find_maximal_contrast_binary_search"})
    /\ method = "golden_section"
    /\ IF fn = "find_maximal_contrast_iterative"
       THEN /\ step_size \in StepSizes
            /\ max_attempts \in MaxAttempts
            /\ precision = DefaultPrecision
       ELSE /\ step_size = DefaultStepSize
            /\ max_attempts = DefaultMaxAttempts
            /\ precision \in Precisions
    /\ InitFac
    /\ InitMax
    /\ InitOpt

NextMaximal ==
    \/ it_Start
    \/ it_Step
    \/ it_Exhausted
    \/ bs_Start
    \/ bs_Step
    \/ bs_Converged

SpecMaximal == InitMaximal /\ [][NextMaximal]_vars

\* the same base, target, basis flag, step size and max attempts at level
\* "AA" and then at another level: the first result is kept in value
\* while the second call runs
it_Again ==
    /\ pc = "done"
    /\ fn = "find_maximal_contrast_iterative"
    /\ level = "AA"
    /\ outcome = "returned"
    /\ value' = result
    /\ level' \in {"AAA", "other"}
    /\ pc' = "start"
    /\ outcome' = "running"
    /\ result' = NoColor
    /\ error' = NoError
    /\ required_ratio' = 0
    /\ current_color' = NoColor
    /\ attempts' = 0
    /\ direction' = 0
    /\ temp_color' = NoColor
    /\ best_color' = NoColor
    /\ best_contrast' = 0
    /\ dirs_entered' = 0
    /\ dirs_failed' = 0
    /\ probes' = {}
    /\ UNCHANGED <<fn, via, base, target, by_lightness, method, step_size,
                   max_attempts, precision, clr, alpha, degrees, grad, swatch,
                   degenerate, factor, max_factor, trail, search_direction,
                   low, midpoints, high, optState>>

InitIterativeLevels ==
    /\ InitMaximal
    /\ fn = "find_maximal_contrast_iterative"
    /\ level = "AA"

NextIterativeLevels == it_Start \/ it_Step \/ it_Exhausted \/ it_Again

SpecIterativeLevels == InitIterativeLevels /\ [][NextIterativeLevels]_vars

InitOptimization ==
    /\ via \in {"function", "method"}
    /\ InitInputs({"find_maximal_contrast_optimization"})
    /\ method \in Methods
    /\ by_lightness = TRUE
    /\ step_size = DefaultStepSize
    /\ max_attempts = DefaultMaxAttempts
    /\ precision = DefaultPrecision
    /\ InitFac
    /\ InitMax
    /\ InitOpt

NextOptimization ==
    \/ maximize_contrast_optimization
    \/ opt_Start
    \/ gs_Step
    \/ gs_Return
    \/ gd_Step
    \/ gd_Return

SpecOptimization == InitOptimization /\ [][NextOptimization]_vars

\* the calls of the contrast engine and of the adjustment primitives
InitCalls ==
    \/ InitContrastRatio
    \/ InitIsAccessible
    \/ InitAdjust

NextCalls ==
    \/ call_contrast_ratio
    \/ call_is_accessible
    \/ call_adjust_hue
    \/ call_adjust_hue_back
    \/ call_adjust_saturation
    \/ call_adjust_brightness
    \/ call_adjust_lightness

SpecCalls == InitCalls /\ [][NextCalls]_vars

\* the level rule: is_accessible and the four searches
InitLevels ==
    \/ InitIsAccessible
    \/ InitAccessible
    \/ InitMaximal
    \/ InitOptimization

NextLevels ==
    \/ call_is_accessible
    \/ NextAccessible
    \/ NextMaximal
    \/ NextOptimization

SpecLevels == InitLevels /\ [][NextLevels]_vars

----------------------------------------------------------------------------
(* Properties *)

Recognized == {"golden_section", "gradient_descent"}

IsOpt == fn = "find_maximal_contrast_optimization"

IsFac == fn = "find_accessible_color"

IsMax == fn \in {"find_maximal_contrast_iterative",
                 "find_maximal_contrast_binary_search"}

Returned == outcome = "returned"

\* 4.5 for AA and every other level, 7.0 for AAA
Needed == IF level = "AAA" THEN 70000 ELSE 45000

BaseContrast == contrast_ratio(base, target)

C2_MaxNonRegression ==
    IsMax =>
        /\ pc \in {"it_loop", "bs_loop", "done"} => best_contrast >= BaseContrast
        /\ Returned => contrast_ratio(result, target) >= BaseContrast

C2_Witness ==
    /\ IsMax
    /\ Returned
    /\ result # base
    /\ contrast_ratio(result, target) > BaseContrast

\* C3: the color that golden_section returns has a contrast against the
\* target that is at least the contrast of the base.
C3_GoldenNonRegression ==
    (IsOpt /\ method = "golden_section" /\ Returned) =>
        contrast_ratio(result, target) >= BaseContrast

\* C4: the color that gradient_descent returns has a contrast against the
\* target that is at least the contrast of the base.
C4_GradientNonRegression ==
    (IsOpt /\ method = "gradient_descent" /\ Returned) =>
        contrast_ratio(result, target) >= BaseContrast

C4_Witness ==
    /\ IsOpt
    /\ method = "gradient_descent"
    /\ Returned
    /\ best_factor # FS
    /\ contrast_ratio(result, target) > BaseContrast

\* C5: if the base already has the required ratio against the target,
\* find_accessible_color adjusts nothing and returns the base itself.
C5_AlreadyAccessible ==
    (IsFac /\ BaseContrast >= Needed /\ pc # "start") =>
        /\ Returned
        /\ result = base
        /\ attempts = 0
        /\ trail = <<>>

C5_Witness ==
    /\ IsFac
    /\ Returned
    /\ BaseContrast >= Needed
    /\ BaseContrast < 210000
    /\ result = base

\* the colors base, adjust(base), adjust(adjust(base)), ... of a call of
\* find_accessible_color, n adjustments long
RECURSIVE Compound(_, _, _)
Compound(chain, f, n) ==
    IF n = 0 THEN chain
    ELSE Compound(Append(chain,
                         IF by_lightness
                         THEN adjust_lightness(chain[Len(chain)], f)
                         ELSE adjust_brightness(chain[Len(chain)], f)),
                  f, n - 1)

\* c is the first color of the chain that meets the ratio, or its last
FirstMeeting(chain, c) ==
    \E k \in 1..Len(chain) :
        /\ c = chain[k]
        /\ \A j \in 1..(k - 1) : contrast_ratio(chain[j], target) < Needed
        /\ contrast_ratio(chain[k], target) >= Needed \/ k = Len(chain)

\* C6: when the base does not meet the required ratio, what
\* find_accessible_color returns is the first color of the sequence base,
\* adjust(base), adjust(adjust(base)), ... (one fixed factor, compounding)
\* that meets the ratio, or the 50th adjustment if none up to it does.
C6_FirstAccessible ==
    (IsFac /\ Returned /\ BaseContrast < Needed) =>
        /\ factor \in {1100000, 900000}
        /\ FirstMeeting(Compound(<<base>>, factor, 50), result)

C6_Witness ==
    /\ IsFac
    /\ Returned
    /\ attempts >= 2
    /\ attempts < 50
    /\ contrast_ratio(result, target) >= Needed

\* C7: when the base does not meet the required ratio, find_accessible_color
\* lightens (factor 1.1) if the luminance of the base exceeds that of the
\* target and the result is then at least as luminous as the base; otherwise,
\* equal luminances included, it darkens (factor 0.9) and the result is at
\* most as luminous as the base.
C7_Direction ==
    (IsFac /\ pc # "start" /\ BaseContrast < Needed) =>
        IF luminance(base) > luminance(target)
        THEN /\ factor = 1100000
             /\ luminance(current_color) >= luminance(base)
             /\ Returned => luminance(result) >= luminance(base)
        ELSE /\ factor = 900000
             /\ luminance(current_color) <= luminance(base)
             /\ Returned => luminance(result) <= luminance(base)

C7_Witness ==
    /\ IsFac
    /\ Returned
    /\ BaseContrast < Needed
    /\ luminance(base) > luminance(target)
    /\ luminance(result) > luminance(base)

\* C8: a numeric error of an adjustment inside the loop of
\* find_accessible_color does not reach the caller.
C8_ErrorNotSurfaced == IsFac => outcome # "raised"

\* C9: in find_maximal_contrast_iterative and
\* find_maximal_contrast_binary_search an exception of an adjustment ends
\* the loop of one direction only: no error reaches the caller, both
\* directions are entered before the function returns, and what is returned
\* is the best color found, which is a Color.
C9_FailureEndsOneDirection ==
    IsMax =>
        /\ outcome # "raised"
        /\ dirs_failed <= dirs_entered
        /\ pc # "start" => (best_color # NoColor /\ best_color \in ColorType)
        /\ Returned => (dirs_entered = 2 /\ result = best_color)

C9_Witness ==
    /\ IsMax
    /\ Returned
    /\ dirs_failed = 1
    /\ result # base

\* C10: with a recognized method no numeric error of an adjustment reaches
\* the caller of find_maximal_contrast_optimization.
C10_ObjectiveFailureContained ==
    (IsOpt /\ method \in Recognized) => outcome # "raised"

\* C11: is_accessible answers whether the contrast ratio is at least 7.0 for
\* level AAA and at least 4.5 for AA and for every other level, without an
\* error; the required ratio of each search follows the same rule.
C11_LevelRule ==
    /\ (fn = "is_accessible" /\ pc = "done") =>
           /\ Returned
           /\ value = (BaseContrast >= Needed)
    /\ (fn # "is_accessible" /\ pc \notin {"start", "method"}) =>
           required_ratio = Needed

C11_Witness ==
    /\ fn = "is_accessible"
    /\ pc = "done"
    /\ level = "other"
    /\ value = TRUE
    /\ BaseContrast < 70000

\* C12: contrast_ratio(a, b) equals contrast_ratio(b, a).
C12_Symmetric ==
    (fn = "contrast_ratio" /\ pc = "done") =>
        value = contrast_ratio(target, base)

C12_Witness ==
    /\ fn = "contrast_ratio"
    /\ pc = "done"
    /\ luminance(base) < luminance(target)
    /\ value > 3 * RS

SameRgb(c1, c2) == c1.r = c2.r /\ c1.g = c2.g /\ c1.b = c2.b

\* C13: a contrast ratio lies between 1.0 and 21.0; it is 1.0 exactly when
\* the two luminances are equal, so for a color against itself and for two
\* colors that differ in alpha only; it is 21.0 for black against white.
C13_Range ==
    (fn = "contrast_ratio" /\ pc = "done") =>
        /\ value >= RS
        /\ value <= 21 * RS
        /\ (value = RS) <=> (luminance(base) = luminance(target))
        /\ SameRgb(base, target) => value = RS
        /\ ({base, target} = {Black, White}) => value = 21 * RS

C13_Witness ==
    /\ fn = "contrast_ratio"
    /\ pc = "done"
    /\ base # target
    /\ SameRgb(base, target)
    /\ value = RS

\* C14: a Color that has been constructed has its four channels within
\* [0, 1], whatever the form of the input.
C14_ChannelsInRange ==
    (fn = "Color" /\ Returned) => result \in ColorType

IsScale == fn \in {"adjust_saturation", "adjust_brightness", "adjust_lightness"}

\* the product of a channel x (in units of 1/cap) and the factor is at
\* least 1.0
AtLeastOne(x, cap) == x > 0 /\ factor >= ((cap * FS) + x - 1) \div x

\* y is min(1, max(0, x * factor)) to within one step of the channel
\* grid (1/S), and exactly so at both bounds
Clamped(y, x, cap) ==
    IF x = 0 \/ factor <= 0 THEN y = 0
    ELSE IF AtLeastOne(x, cap) THEN y = cap
    ELSE Abs(y * FS - x * factor) <= FS * (cap \div S)

\* the same for a saturation, a fraction of two channels the larger of
\* which is v: within one step of the grid of v
ClampedFrac(y, x, v) ==
    IF x[1] = 0 \/ factor <= 0 THEN y[1] = 0
    ELSE IF factor >= ((x[2] * FS) + x[1] - 1) \div x[1] THEN y = <<1, 1>>
    ELSE Abs(10 * y[1] * x[2] - x[1] * (factor \div (FS \div 10)) * y[2]) * v
            <= 10 * y[2] * x[2]

IsAdjust == IsScale \/ fn = "adjust_hue"

\* a hue in thousandths of a degree
Millidegrees(h) ==
    ((h[1] \div h[2]) * 1000) + (((h[1] % h[2]) * 1000) \div h[2])

\* the distance of two hues around the circle, in thousandths of a degree
HueDistance(h1, h2) ==
    Min(Abs(Millidegrees(h1) - Millidegrees(h2)),
        360000 - Abs(Millidegrees(h1) - Millidegrees(h2)))

\* the spread of the channels of a color: the hue of a color moves by at
\* most 60/spread degrees when a channel moves by one step of the grid
Spread(c) == Max3(c.r, c.g, c.b) - Min3(c.r, c.g, c.b)

\* the hue h1 of the color c is the hue h0, as exactly as the grid of c
\* can tell; a gray c tells the hue 0 only
SameHue(h1, h0, c) ==
    IF Spread(c) = 0 THEN h1 = h0
    ELSE HueDistance(h1, h0) * Spread(c) <= 120000

\* the saturation s1 is the saturation s0 to within steps/w, w being the
\* denominator of s1 before reduction; with w = 0 only equality will do
SameSaturation(s1, s0, w, steps) ==
    IF w = 0 THEN s1 = s0
    ELSE Abs(s1[1] * s0[2] - s0[1] * s1[2]) * w <= steps * s1[2] * s0[2]

\* the denominator of the HSL saturation of a color of lightness l
HlsWeight(l) == Min(l, (2 * S) - l)

\* C16: every adjustment changes its own channel only: adjust_hue keeps
\* the HSV saturation and value, adjust_saturation the hue and value,
\* adjust_brightness the hue and saturation, adjust_lightness the HSL hue
\* and saturation, all of them alpha; also when the result is black,
\* white or gray.
C16_OthersKept ==
    (IsAdjust /\ pc = "done" /\ Returned) =>
        /\ result.a = base.a
        /\ fn = "adjust_hue" =>
               /\ hsv(result).s = hsv(base).s
               /\ hsv(result).v = hsv(base).v
        /\ fn = "adjust_saturation" =>
               /\ SameHue(hsv(result).h, hsv(base).h, result)
               /\ hsv(result).v = hsv(base).v
        /\ fn = "adjust_brightness" =>
               /\ SameHue(hsv(result).h, hsv(base).h, result)
               /\ SameSaturation(hsv(result).s, hsv(base).s,
                                 hsv(result).v, 1)
        /\ fn = "adjust_lightness" =>
               /\ SameHue(hsl(result).h, hsl(base).h, result)
               /\ SameSaturation(hsl(result).s, hsl(base).s,
                                 HlsWeight(hsl(result).l), 2)

\* (h + d) mod 360 for a hue h in degrees
Rotated(h, d) == Frac((h[1] + (d * h[2])) % (360 * h[2]), h[2])

InCircle(h) == h[1] >= 0 /\ h[1] < 360 * h[2]

\* C17: adjust_hue(degrees) yields the hue (h + degrees) mod 360, within
\* [0, 360) for negative and for large degrees too; a multiple of 360
\* reproduces the hue, and rotating by d and then by -d restores it.
C17_HueRotates ==
    /\ (fn = "adjust_hue" /\ pc \in {"done", "reversed"} /\ Returned) =>
           /\ InCircle(hsv(result).h)
           /\ SameHue(hsv(result).h, Rotated(hsv(base).h, degrees), result)
           /\ (degrees % 360 = 0) => hsv(result).h = hsv(base).h
    /\ (fn = "adjust_hue" /\ pc = "reversed") =>
           SameHue(hsv(value).h, hsv(base).h, value)

\* C18: the color find_accessible_color returns, and the one
\* find_maximal_contrast_binary_search returns, has the HSV hue of the
\* base, also when it is black or white.
C18_HuePreserved ==
    (fn \in {"find_accessible_color", "find_maximal_contrast_binary_search"}
        /\ pc = "done" /\ Returned) =>
        SameHue(hsv(result).h, hsv(base).h, result)

\* C19: for one base, target and basis flag, the color find_accessible_color
\* returns for "AAA" has at least the contrast against the target of the
\* color it returns for "AA" (kept in value).
C19_LevelsOrdered ==
    (IsFac /\ level = "AAA" /\ pc = "done" /\ Returned) =>
        contrast_ratio(result, target) >= contrast_ratio(value, target)

C19_Witness ==
    /\ IsFac
    /\ level = "AAA"
    /\ pc = "done"
    /\ Returned
    /\ contrast_ratio(value, target) >= RequiredRatio("AA")
    /\ contrast_ratio(result, target) >= RequiredRatio("AAA")
    /\ contrast_ratio(value, target) < RequiredRatio("AAA")
    /\ value # base

\* new_colors is colors made accessible one by one, in the same order
ElementWise(new_colors, colors) ==
    /\ Len(new_colors) = Len(colors)
    /\ \A i \in 1..Len(colors) :
           new_colors[i] =
               find_accessible_color(colors[i], target, level, TRUE).color

\* C20: Gradient.make_accessible and Swatch.make_accessible apply
\* find_accessible_color element by element: as many colors (and
\* gradients) in the same order, each the find_accessible_color of the
\* color at its position against the background and level; a swatch keeps
\* its maxn; the gradient and the swatch called are left as they were.
C20_ElementByElement ==
    /\ []((fn = "Gradient.make_accessible" /\ pc = "done" /\ Returned) =>
              ElementWise(value.colors, grad.colors))
    /\ []((fn = "Swatch.make_accessible" /\ pc = "done" /\ Returned) =>
              /\ value.maxn = swatch.maxn
              /\ Len(value.gradients) = Len(swatch.gradients)
              /\ \A j \in 1..Len(swatch.gradients) :
                     ElementWise(value.gradients[j].colors,
                                 swatch.gradients[j].colors))
    /\ [][grad' = grad /\ swatch' = swatch]_vars

C20_Witness ==
    /\ fn = "Swatch.make_accessible"
    /\ pc = "done"
    /\ Returned
    /\ swatch.maxn # DefaultMaxn
    /\ Len(swatch.gradients) = 2
    /\ Len(swatch.gradients[1].colors) = 3
    /\ Len(swatch.gradients[2].colors) = 2
    /\ \E i \in 1..3 :
           value.gradients[1].colors[i] # swatch.gradients[1].colors[i]
    /\ \E i \in 1..3 :
           value.gradients[1].colors[i] = swatch.gradients[1].colors[i]

IsIterative == fn = "find_maximal_contrast_iterative"

IsBinary == fn = "find_maximal_contrast_binary_search"

\* the call of the docstring: find_maximal_contrast_iterative('#888888',
\* 'white') with every other argument at its default
DocstringCall ==
    /\ IsIterative
    /\ base = Hex(136, 136, 136)
    /\ target = White
    /\ level = "AA"
    /\ by_lightness
    /\ step_size = DefaultStepSize
    /\ max_attempts = DefaultMaxAttempts

\* C21: find_maximal_contrast_iterative adjusts the color only until it
\* meets the required ratio of the level and then stops: for '#888888'
\* against white with the default arguments the result is the color
\* find_accessible_color returns, the first one on the way that meets 4.5.
C21_StopsAtRequirement ==
    (DocstringCall /\ pc = "done" /\ Returned) =>
        /\ result = find_accessible_color(base, target, level, TRUE).color
        /\ contrast_ratio(Adjust(result, it_factor(1, step_size), TRUE).color,
                          target) < required_ratio
        /\ contrast_ratio(Adjust(result, it_factor(0 - 1, step_size),
                                 TRUE).color, target) >= required_ratio

BestOfCandidates ==
    /\ contrast_ratio(best_color, target) = best_contrast
    /\ best_contrast >= BaseContrast
    /\ \A c \in probes : contrast_ratio(c, target) <= best_contrast
    /\ best_color = base \/ best_color \in probes
    /\ (\A c \in probes : contrast_ratio(c, target) <= BaseContrast)
           => best_color = base

\* C23: in find_maximal_contrast_iterative each direction starts again from
\* the base; a candidate is accepted only if its contrast strictly exceeds
\* the best of the whole call, the first one that does not ends the
\* direction; the result is at least as good as every candidate evaluated
\* and is the base when none improves.
C23_GreedyBest ==
    /\ []((IsIterative /\ pc = "it_loop") =>
              /\ BestOfCandidates
              /\ attempts = 0 => temp_color = base
              /\ temp_color \in {base, best_color})
    /\ []((IsIterative /\ pc = "done") =>
              /\ Returned
              /\ BestOfCandidates
              /\ result = best_color)
    /\ [][(IsIterative /\ pc = "it_loop" /\ attempts < max_attempts) =>
              IF best_contrast' > best_contrast
              THEN /\ temp_color' = best_color'
                   /\ direction' = direction
                   /\ attempts' = attempts + 1
              ELSE /\ best_color' = best_color
                   /\ best_contrast' = best_contrast
                   /\ direction' # direction \/ pc' = "done"]_vars

C23_Witness ==
    /\ IsIterative
    /\ pc = "done"
    /\ Returned
    /\ result # base
    /\ Cardinality(probes) >= 3
    /\ \E c \in probes : contrast_ratio(c, target) < BaseContrast

\* the bounds after the midpoint mid, whose color has the contrast t
Narrowed(mid, t) ==
    IF (search_direction = "lighter") = (t >= Needed)
    THEN low' = mid /\ high' = high
    ELSE high' = mid /\ low' = low

\* the midpoint factor is applied to the base and the bounds follow the
\* threshold test
MidpointRule(mid, c) ==
    /\ probes' = probes \cup {c}
    /\ Narrowed(mid, contrast_ratio(c, target))

\* C24: in find_maximal_contrast_binary_search every midpoint factor is
\* applied to the base itself; lighter (from [1.0, 3.0]): a midpoint that
\* meets the required ratio becomes the lower bound, otherwise the upper
\* bound; darker (from [0.1, 1.0]): one that meets it becomes the upper
\* bound, otherwise the lower bound; low <= high and the interval stays
\* inside its starting interval.
C24_IntervalRule ==
    /\ []((IsBinary /\ pc = "bs_loop") =>
              /\ low <= high
              /\ search_direction = "lighter" => FS <= low /\ high <= 3 * FS
              /\ search_direction = "darker" =>
                     FS \div 10 <= low /\ high <= FS)
    /\ [][(IsBinary /\ pc = "bs_loop" /\ pc' = "bs_loop"
              /\ search_direction' = search_direction)
             => MidpointRule((low + high) \div 2,
                             Adjust(base, (low + high) \div 2,
                                    by_lightness).color)]_vars

C24_Witness ==
    /\ IsBinary
    /\ pc = "bs_loop"
    /\ search_direction = "darker"
    /\ low > FS \div 10
    /\ high < FS
    /\ Cardinality(probes) >= 4

\* the largest contrast among the base and the colors evaluated
MaxObserved ==
    CHOOSE m \in {BaseContrast} \cup {contrast_ratio(c, target) : c \in probes} :
        /\ m >= BaseContrast
        /\ \A c \in probes : m >= contrast_ratio(c, target)

\* C25: find_maximal_contrast_binary_search returns the best color it
\* observed: the contrast of the result equals the maximum of the base's
\* contrast and the contrasts of all midpoint colors of both directions, and
\* the result is the base when no midpoint has a strictly higher contrast.
C25_BestObserved ==
    (IsBinary /\ pc = "done" /\ Returned) =>
        /\ contrast_ratio(result, target) = MaxObserved
        /\ result = base \/ result \in probes
        /\ (\A c \in probes : contrast_ratio(c, target) <= BaseContrast)
               => result = base

C25_Witness ==
    /\ IsBinary
    /\ pc = "done"
    /\ Returned
    /\ result # base
    /\ BaseContrast < Needed
    /\ \E c \in probes : contrast_ratio(c, target) < BaseContrast
    /\ \E c \in probes :
           /\ contrast_ratio(c, target) >= Needed
           /\ contrast_ratio(c, target) < contrast_ratio(result, target)

IsGolden ==
    fn = "find_maximal_contrast_optimization" /\ method = "golden_section"

IsGradient ==
    fn = "find_maximal_contrast_optimization" /\ method = "gradient_descent"

\* s is the largest objective value over the factors evaluated so far
MaxOverProbes(s) ==
    /\ \E p \in probes : objective_function(p) = s
    /\ \A p \in probes : objective_function(p) <= s

\* C26: with method 'golden_section' the best factor and score are the best
\* over all probe points of all iterations, and the returned color is the
\* better-scoring of the lightness-adjusted and brightness-adjusted
\* candidates at that factor: the contrast of the result equals the maximum
\* objective value over every probe point evaluated.
C26_BestOverAllProbes ==
    /\ (IsGolden /\ pc \in {"gs_loop", "done"} /\ outcome # "raised") =>
           /\ MaxOverProbes(best_contrast)
           /\ best_factor \in probes
           /\ objective_function(best_factor) = best_contrast
    /\ (IsGolden /\ pc = "done" /\ Returned) =>
           /\ contrast_ratio(result, target) = best_contrast
           /\ result \in {Adjust(base, best_factor, TRUE).color,
                           Adjust(base, best_factor, FALSE).color}

C26_Witness ==
    /\ IsGolden
    /\ pc = "done"
    /\ Returned
    /\ Cardinality(probes) >= 20
    /\ best_factor < a \/ best_factor > b
    /\ contrast_ratio(Adjust(base, best_factor, TRUE).color, target)
           # contrast_ratio(Adjust(base, best_factor, FALSE).color, target)

\* the trial factor of the iteration that starts in this state
TrialFactor == gd_new_factor(factor, learning_rate, gradient(factor))

\* C27: in method 'gradient_descent' an iteration whose trial factor does not
\* strictly improve the best objective value leaves the current factor, the
\* best factor and the best score unchanged and only multiplies the learning
\* rate by 0.9; the current factor moves only on a strictly improving step.
C27_RejectedStep ==
    [][(IsGradient /\ pc = "gd_loop" /\ iteration' = iteration + 1) =>
          /\ objective_function(TrialFactor) <= best_contrast =>
                 /\ factor' = factor
                 /\ best_factor' = best_factor
                 /\ best_contrast' = best_contrast
                 /\ learning_rate' = (learning_rate * 9) \div 10
          /\ factor' # factor =>
                 /\ objective_function(TrialFactor) > best_contrast
                 /\ factor' = TrialFactor]_vars

C27_Witness ==
    /\ IsGradient
    /\ iteration >= 1
    /\ learning_rate = (gd_learning_rate * 9) \div 10
    /\ factor = gd_factor
    /\ best_factor = gd_factor
    /\ \E p \in probes : p \notin {factor, factor + epsilon, factor - epsilon}

\* C28: method 'gradient_descent' stops only after 100 iterations or when the
\* improvement of the objective between successive steps falls below 1e-6:
\* a step that improves the objective by 1e-6 or more does not end the loop.
C28_AscentContinues ==
    [][(IsGradient /\ pc = "gd_loop" /\ iteration' = iteration + 1
          /\ iteration' < max_iterations
          /\ (best_contrast' - best_contrast) * ((10 ^ 6) \div RS) >= 1)
         => pc' = "gd_loop"]_vars

\* C29: every call of the find_* functions terminates: find_accessible_color
\* makes at most 50 adjustments, find_maximal_contrast_iterative accepts at
\* most max_attempts steps per direction, gradient_descent runs at most 100
\* iterations, and in the binary search (for any precision > 0) and in the
\* golden-section search the interval width strictly decreases at every
\* iteration until it is no larger than the tolerance.
C29_Terminates ==
    /\ [](fn = "find_accessible_color" => attempts <= fac_max_attempts)
    /\ [](IsIterative => attempts <= max_attempts)
    /\ [](IsGradient => iteration <= max_iterations)
    /\ [][(IsGolden /\ pc = "gs_loop" /\ pc' = "gs_loop")
             => Abs(b' - a') < Abs(b - a)]_vars
    /\ [][(IsBinary /\ pc = "bs_loop" /\ midpoints' = midpoints + 1)
             => high' - low' < high - low]_vars

\* the HSV value of a color, in channel units
Brightness(c) == Max3(c.r, c.g, c.b)

\* C30: in find_accessible_color the factor is fixed at 1.1 or 0.9 for the
\* whole call and never reaches the cap 2.0 or the floor 0.1, so the
\* cap/floor check never ends the loop: the loop ends only when the
\* threshold is met or after 50 attempts, and the color can be scaled
\* cumulatively beyond a factor 2.0 or below 0.1 of its original brightness.
C30_CapNeverReached ==
    /\ []((IsFac /\ pc # "start" /\ BaseContrast < Needed) =>
              /\ factor \in {(11 * FS) \div 10, (9 * FS) \div 10}
              /\ factor > FS => max_factor = 2 * FS /\ factor < max_factor
              /\ factor < FS => max_factor = FS \div 10 /\ factor > max_factor
              /\ Returned =>
                     \/ contrast_ratio(result, target) >= Needed
                     \/ attempts = fac_max_attempts)
    /\ [][(IsFac /\ pc = "fac_loop") =>
              /\ factor' = factor
              /\ max_factor' = max_factor
              /\ (attempts' = attempts + 1 /\ attempts' < fac_max_attempts
                    /\ contrast_ratio(current_color', target) < Needed)
                   => pc' = "fac_loop"]_vars

C30_Witness ==
    /\ IsFac
    /\ Returned
    /\ factor = (11 * FS) \div 10
    /\ attempts >= 8
    /\ attempts < fac_max_attempts
    /\ Brightness(result) > 2 * Brightness(base)
    /\ contrast_ratio(result, target) >= Needed

====
